---- MODULE Spec2Model ----
(***************************************************************************)
(* RadiSense search engine (RadiSenseSearchEngine.ts) as a state machine.  *)
(*                                                                         *)
(* A JavaScript string is a sequence of one-character strings.  A document *)
(* is a function from field names to tagged values (string or number).     *)
(* A JavaScript number that the scorer computes is a record                *)
(* [nan, m]: m is the value in thousandths (fixed point, truncated), nan   *)
(* says that the value is NaN.  Map and Set keep insertion order, so the   *)
(* inverted index is a sequence of [term, ids] entries.                    *)
(***************************************************************************)
EXTENDS Integers, Sequences, FiniteSets, TLC

\* ------------------------------------------------------------------ bounds

\* Single addDocument calls made on one engine.
MaxAdds == 3

\* ---------------------------------------------------------------- strings

Upper == <<"A","B","C","D","E","F","G","H","I","J","K","L","M",
           "N","O","P","Q","R","S","T","U","V","W","X","Y","Z">>

Lower == <<"a","b","c","d","e","f","g","h","i","j","k","l","m",
           "n","o","p","q","r","s","t","u","v","w","x","y","z">>

Digits == <<"0","1","2","3","4","5","6","7","8","9">>

\* String.prototype.toLowerCase, on the ASCII letters.
ToLowerChar(c) ==
  IF \E i \in 1..Len(Upper) : Upper[i] = c
  THEN Lower[CHOOSE i \in 1..Len(Upper) : Upper[i] = c]
  ELSE c

toLowerCase(s) == [i \in 1..Len(s) |-> ToLowerChar(s[i])]

\* The ASCII members of the SPACE_OR_PUNCTUATION character class:
\* \n \r, space-#, %-*, ,-/, : ; ? @, [-], _ { }.
\* ($ + < = > ^ ` | ~ and the tab are not in the class.)
SPACE_OR_PUNCTUATION ==
  {"\n", "\r", " ", "!", "\"", "#", "%", "&", "'", "(", ")", "*",
   ",", "-", ".", "/", ":", ";", "?", "@", "[", "\\", "]", "_", "{", "}"}

\* Whether a value is evaluated: an operator's argument is evaluated where
\* it is first used, and this use is made before a loop goes on, which keeps
\* the evaluation of a loop's accumulator shallow.
Evaluated(value) == value = value

\* The ASCII members of the regular expression class \s.
WhiteSpace == {" ", "\t", "\n", "\r", "\f"}

\* First index >= i of s that holds no separator (Len(s)+1 when none).
RECURSIVE SkipSeparators(_, _)
SkipSeparators(s, i) ==
  IF i > Len(s) \/ s[i] \notin SPACE_OR_PUNCTUATION THEN i
  ELSE SkipSeparators(s, i + 1)

\* String.prototype.split(SPACE_OR_PUNCTUATION): the pieces between maximal
\* runs of separators, empty pieces at the ends included.
RECURSIVE SplitFrom(_, _, _, _)
SplitFrom(s, i, piece, pieces) ==
  IF ~Evaluated(<<piece, pieces>>) \/ i > Len(s)
  THEN Append(pieces, piece)
  ELSE IF s[i] \in SPACE_OR_PUNCTUATION
       THEN SplitFrom(s, SkipSeparators(s, i), <<>>, Append(pieces, piece))
       ELSE SplitFrom(s, i + 1, Append(piece, s[i]), pieces)

split(s) == SplitFrom(s, 1, <<>>, <<>>)

DotHtml == <<".", "h", "t", "m", "l">>

endsWith(s, suffix) ==
  /\ Len(s) >= Len(suffix)
  /\ \A k \in 1..Len(suffix) : s[Len(s) - Len(suffix) + k] = suffix[k]

\* /\/[^\s]*?\.html$/.test(s): a slash, then characters that are no white
\* space, then ".html" at the end of the string.
IsUrlPath(s) ==
  /\ endsWith(s, DotHtml)
  /\ \E i \in 1..(Len(s) - Len(DotHtml)) :
       /\ s[i] = "/"
       /\ \A k \in (i + 1)..(Len(s) - Len(DotHtml)) : s[k] \notin WhiteSpace

\* FieldTerms without the lowercasing of the field value.
FieldTermsKeepingCase(fieldValue) ==
  IF IsUrlPath(fieldValue) THEN << fieldValue >> ELSE split(fieldValue)

\* The terms addDocument derives from one string field value (empty pieces
\* included: the caller drops them).
FieldTerms(fieldValue) ==
  IF IsUrlPath(toLowerCase(fieldValue))
  THEN << toLowerCase(fieldValue) >>
  ELSE split(toLowerCase(fieldValue))

\* Number.prototype.toString of a natural number.
RECURSIVE NatToString(_)
NatToString(n) ==
  IF n < 10 THEN << Digits[n + 1] >>
  ELSE Append(NatToString(n \div 10), Digits[(n % 10) + 1])

\* ----------------------------------------------------------------- values

Str(s) == [t |-> "string", s |-> s, n |-> 0]
Num(n) == [t |-> "number", s |-> <<>>, n |-> n]

\* value.toString() of a field value.
toString(v) == IF v.t = "string" THEN v.s ELSE NatToString(v.n)

\* The value of documents.get(id) when id is no key of the Map.
Undefined == [undefined |-> TRUE]

IsUndefined(d) == "undefined" \in DOMAIN d

\* ---------------------------------------------------------------- options

IdA == <<"/", "a">>
IdB == <<"/", "b">>
IdC == <<"/", "c">>

\* The 34 of slice(0, 34).
ResultCap == 34

\* A list of initial results one longer than the cap: /a, /b, /a, ...
LongInitialResults ==
  [i \in 1..(ResultCap + 1) |-> IF i % 2 = 1 THEN IdA ELSE IdB]

\* RadiSenseSearchOptions.  An optional member that is left out is an empty
\* sequence (customBoostFactorField, initialResults: a present one is a
\* one-element sequence) or an empty function (boost); factors are in
\* thousandths.

\* Two searched fields, a per-document boost, two initial results.
OptionsPlain ==
  [ fields |-> <<"title", "body">>,
    idField |-> "path",
    customBoostFactorField |-> <<>>,
    boost |-> [f \in {} |-> 0],
    specificDocumentBoosts |-> << [id |-> IdA, boostFactor |-> 20000] >>,
    initialResults |-> << <<IdA, IdB>> >> ]

\* A custom boost field among the fields, a field boost, a long list of
\* initial results.
OptionsRanked ==
  [ fields |-> <<"title", "rank">>,
    idField |-> "path",
    customBoostFactorField |-> <<"rank">>,
    boost |-> [f \in {"title"} |-> 1000],
    specificDocumentBoosts |-> <<>>,
    initialResults |-> << LongInitialResults >> ]

\* The options an engine is constructed with.
OptionSets == {OptionsPlain, OptionsRanked}

\* -------------------------------------------------------------- documents

\* The documents handed to addDocument.
DocA == [path |-> Str(IdA), title |-> Str(<<"A", "b">>), rank |-> Num(300)]

DocB == [path |-> Str(IdB), title |-> Str(<<"a", "c">>),
         body |-> Str(<<"A", "b", " ", "c">>), rank |-> Num(400)]

\* The custom boost field holds a string that is no number.
DocC == [path |-> Str(IdC), title |-> Str(<<"a", "c", "b">>),
         rank |-> Str(<<"x">>)]

\* No id field.
DocNoId == [title |-> Str(<<"A", "b">>)]

\* The id of DocA again, with no searched field.
DocABare == [path |-> Str(IdA)]

\* A numeric id and a URL-like path.
DocUrl == [path |-> Num(7),
           title |-> Str(<<"/", "A", ".", "h", "t", "m", "l">>)]

Documents == {DocA, DocB, DocC, DocNoId, DocABare, DocUrl}

\* ------------------------------------------------------------------ state

VARIABLES
  options,                \* the options of the constructor
  specificDocumentBoosts, \* Map id -> boost factor, as a function
  documents,              \* Map id -> projected document, as a function
  invertedIndex,          \* Map term -> Set of ids, in insertion order
  documentLengths,        \* Map id -> length, as a function
  totalDocuments,
  averageDocumentLength,
  ret,                    \* the last call and what it returned
  storage,                \* IndexedDB and localStorage of the page's origin
  page,                   \* the script's data-version and Date.now()
  hook,                   \* where the effect of useRadiSenseIndex stands
  inbox,                  \* messages posted to the search worker, unhandled
  worker                  \* the search worker's module state

engine == <<documents, invertedIndex, documentLengths, totalDocuments,
            averageDocumentLength>>

\* What lives outside the engine.
browser == <<storage, page, hook, inbox, worker>>

vars == <<options, specificDocumentBoosts, documents, invertedIndex,
          documentLengths, totalDocuments, averageDocumentLength, ret,
          storage, page, hook, inbox, worker>>

\* Map.set on a Map held as a function.
MapSet(map, key, value) == (key :> value) @@ map

EmptyMap == [k \in {} |-> 0]

\* The Map the constructor builds from options.specificDocumentBoosts: a
\* later entry for an id replaces an earlier one.
RECURSIVE BoostMap(_, _)
BoostMap(boosts, k) ==
  IF k = 0 THEN EmptyMap
  ELSE MapSet(BoostMap(boosts, k - 1), boosts[k].id, boosts[k].boostFactor)

\* What a call leaves in ret.
Returned(op, threw, query, filter, searchTerms, results, filterCalls, out) ==
  [ op |-> op, threw |-> threw, query |-> query, filter |-> filter,
    searchTerms |-> searchTerms, results |-> results,
    filterCalls |-> filterCalls, out |-> out ]

NoCall(op, threw) == Returned(op, threw, <<>>, "none", <<>>, <<>>, <<>>, <<>>)

\* Date.now() at the page load, in hours since the epoch.
ClockStart == 1000

\* No cached CSV, no localStorage item.
EmptyStorage == [csv |-> <<>>, lastVersion |-> <<>>, lastUpdated |-> <<>>]

\* The hook before its effect has run: the result of getCachedCSV (a
\* one-element sequence when it returned documents), the next CSV chunk,
\* wholeData, and the time and version at which saveCachedCSV completed.
IdleHook ==
  [ pc |-> "start", cachedCSV |-> <<>>, chunk |-> 1, wholeData |-> <<>>,
    searches |-> 0, savedAt |-> <<>>, savedVersion |-> <<>> ]

\* The worker module before any message: radiSenseSearchEngine is
\* undefined; last is the action of the message handled last, threw whether
\* its handler threw, inserts the insertMultiple messages handled and
\* batchIds the ids of their documents.
IdleWorker ==
  [ created |-> FALSE, last |-> "none", threw |-> FALSE, inserts |-> 0,
    batchIds |-> {} ]

\* The engine as the constructor leaves it.
Init ==
  /\ storage = EmptyStorage
  /\ page = [version |-> <<>>, clock |-> ClockStart]
  /\ hook = IdleHook
  /\ inbox = <<>>
  /\ worker = IdleWorker
  /\ options \in OptionSets
  /\ specificDocumentBoosts =
       BoostMap(options.specificDocumentBoosts,
                Len(options.specificDocumentBoosts))
  /\ documents = EmptyMap
  /\ invertedIndex = <<>>
  /\ documentLengths = EmptyMap
  /\ totalDocuments = 0
  /\ averageDocumentLength = 0
  /\ ret = NoCall("constructor", FALSE)

\* ------------------------------------------------------------ addDocument

\* Set.add on a Set held as a sequence in insertion order.
SetAdd(set, x) ==
  IF \E i \in 1..Len(set) : set[i] = x THEN set ELSE Append(set, x)

\* invertedIndex.set(term, (invertedIndex.get(term) ?? new Set()).add(id))
IndexAdd(index, term, documentId) ==
  IF \E i \in 1..Len(index) : index[i].term = term
  THEN LET i == CHOOSE k \in 1..Len(index) : index[k].term = term
       IN [index EXCEPT ![i].ids = SetAdd(@, documentId)]
  ELSE Append(index, [term |-> term, ids |-> <<documentId>>])

\* IndexTerms indexing one term only, terms[k].
IndexTermsFirstOnly(index, terms, k, documentId) ==
  IF k > Len(terms) \/ terms[k] = <<>> THEN index
  ELSE IndexAdd(index, terms[k], documentId)

\* terms.forEach: every non-empty term is indexed.
RECURSIVE IndexTerms(_, _, _, _)
IndexTerms(index, terms, k, documentId) ==
  IF ~Evaluated(index) \/ k > Len(terms) THEN index
  ELSE IndexTerms(IF terms[k] # <<>>
                  THEN IndexAdd(index, terms[k], documentId)
                  ELSE index,
                  terms, k + 1, documentId)

\* options.fields.reduce of addDocument, from field k on: the index and the
\* accumulated length after the string-valued fields have been processed.
RECURSIVE IndexFields(_, _, _, _, _)
IndexFields(index, length, k, document, documentId) ==
  IF ~Evaluated(index) \/ k > Len(options.fields)
  THEN [index |-> index, length |-> length]
  ELSE LET field == options.fields[k] IN
       IF field \in DOMAIN document /\ document[field].t = "string"
       THEN IndexFields(
              IndexTerms(index, FieldTerms(document[field].s), 1, documentId),
              length + Len(document[field].s), k + 1, document, documentId)
       ELSE IndexFields(index, length, k + 1, document, documentId)

\* The projected document: the id field as a string, then the configured
\* fields the document has (a configured id field keeps its own value).
FilteredDocument(document, documentId) ==
  LET present == {options.fields[k] : k \in 1..Len(options.fields)}
                   \cap DOMAIN document
  IN [f \in {options.idField} \cup present |->
        IF f \in present THEN document[f] ELSE Str(documentId)]

\* document[idField].toString() throws a TypeError on undefined.
AddThrows(document) == options.idField \notin DOMAIN document

\* AddTo without the final documentLengths.set.
AddToWithoutLength(e, document) ==
  LET documentId == toString(document[options.idField])
      indexed == IndexFields(e.invertedIndex, 0, 1, document, documentId)
  IN [ documents |-> MapSet(e.documents, documentId,
                            FilteredDocument(document, documentId)),
       totalDocuments |-> e.totalDocuments + 1,
       invertedIndex |-> indexed.index,
       documentLengths |-> e.documentLengths ]

\* AddTo without the count of the added document.
AddToWithoutCount(e, document) ==
  LET documentId == toString(document[options.idField])
      indexed == IndexFields(e.invertedIndex, 0, 1, document, documentId)
  IN [ documents |-> MapSet(e.documents, documentId,
                            FilteredDocument(document, documentId)),
       totalDocuments |-> e.totalDocuments,
       invertedIndex |-> indexed.index,
       documentLengths |-> MapSet(e.documentLengths, documentId,
                                  indexed.length) ]

\* The engine after addDocument(document) returned, from the engine e.
AddTo(e, document) ==
  LET documentId == toString(document[options.idField])
      indexed == IndexFields(e.invertedIndex, 0, 1, document, documentId)
  IN [ documents |-> MapSet(e.documents, documentId,
                            FilteredDocument(document, documentId)),
       totalDocuments |-> e.totalDocuments + 1,
       invertedIndex |-> indexed.index,
       documentLengths |-> MapSet(e.documentLengths, documentId,
                                  indexed.length) ]

Engine ==
  [ documents |-> documents, totalDocuments |-> totalDocuments,
    invertedIndex |-> invertedIndex, documentLengths |-> documentLengths ]

\* AddDocument counting the document before it reads the id field.
AddDocumentCountingFirst(document) ==
  /\ IF AddThrows(document)
     THEN /\ ret' = NoCall("addDocument", TRUE)
          /\ totalDocuments' = totalDocuments + 1
          /\ UNCHANGED <<documents, invertedIndex, documentLengths,
                         averageDocumentLength>>
     ELSE LET e == AddTo(Engine, document) IN
          /\ documents' = e.documents
          /\ totalDocuments' = e.totalDocuments
          /\ invertedIndex' = e.invertedIndex
          /\ documentLengths' = e.documentLengths
          /\ ret' = NoCall("addDocument", FALSE)
          /\ UNCHANGED averageDocumentLength
  /\ UNCHANGED <<options, specificDocumentBoosts>>

AddDocument(document) ==
  /\ IF AddThrows(document)
     THEN /\ ret' = NoCall("addDocument", TRUE)
          /\ UNCHANGED engine
     ELSE LET e == AddTo(Engine, document) IN
          /\ documents' = e.documents
          /\ totalDocuments' = e.totalDocuments
          /\ invertedIndex' = e.invertedIndex
          /\ documentLengths' = e.documentLengths
          /\ ret' = NoCall("addDocument", FALSE)
          /\ UNCHANGED averageDocumentLength
  /\ UNCHANGED <<options, specificDocumentBoosts>>

\* ---------------------------------------------------------------- numbers

\* A JavaScript number in thousandths, or NaN.
Fin(m) == [nan |-> FALSE, m |-> m]
NaN == [nan |-> TRUE, m |-> 0]

Times(x, y) == IF x.nan \/ y.nan THEN NaN ELSE Fin((x.m * y.m) \div 1000)
Plus(x, y) == IF x.nan \/ y.nan THEN NaN ELSE Fin(x.m + y.m)

\* x > y of two numbers: false when either is NaN.
Greater(x, y) == ~x.nan /\ ~y.nan /\ x.m > y.m

Min(a, b) == IF a <= b THEN a ELSE b

\* ln 2 in ten-thousandths.
Ln2 == 6931

\* The first terms z + z^3/3 + z^5/5 + ... of artanh z, z in ten-thousandths.
RECURSIVE ArtanhSeries(_, _, _)
ArtanhSeries(z, power, k) ==
  IF k > 11 \/ power = 0 THEN 0
  ELSE power \div k
       + ArtanhSeries(z, (((power * z) \div 10000) * z) \div 10000, k + 2)

\* Math.log(p / q) for integers p >= q > 0, in ten-thousandths:
\* ln x = ln 2 + ln(x / 2) while x >= 2, and ln x = 2 artanh((x-1)/(x+1)).
RECURSIVE LnRatio(_, _)
LnRatio(p, q) ==
  IF p >= 2 * q THEN Ln2 + LnRatio(p, 2 * q)
  ELSE LET z == ((p - q) * 10000) \div (p + q)
       IN 2 * ArtanhSeries(z, z, 1)

\* Math.log(p / q) in thousandths; NaN for a negative argument (and, here,
\* for the -Infinity of a zero argument).
Log(p, q) ==
  IF p <= 0 THEN NaN
  ELSE IF p >= q THEN Fin(LnRatio(p, q) \div 10)
  ELSE Fin(0 - (LnRatio(q, p) \div 10))

\* BM25 constants, in thousandths.
K == 1200
B == 700
D == 500

\* ------------------------------------------------------------------- BM25

Posting(term) ==
  IF \E i \in 1..Len(invertedIndex) : invertedIndex[i].term = term
  THEN invertedIndex[CHOOSE i \in 1..Len(invertedIndex) :
                       invertedIndex[i].term = term].ids
  ELSE <<>>

Has(set, x) == \E i \in 1..Len(set) : set[i] = x

\* Math.log((totalDocuments - df + 0.5) / (df + 0.5) + 1), the fraction
\* with numerator and denominator doubled.
IDF(documentFrequency) ==
  Log((2 * totalDocuments - 2 * documentFrequency + 1)
        + (2 * documentFrequency + 1),
      2 * documentFrequency + 1)

\* termFrequency * (k + 1)
\*   / (termFrequency + k * (1 - b + b * (documentLength / average))) + d.
\* With average = 0 the quotient documentLength / average is NaN for a
\* length of 0 and Infinity otherwise; a finite number divided by Infinity
\* is 0.
FrequencyComponent(termFrequency, documentLength) ==
  IF averageDocumentLength = 0
  THEN IF documentLength = 0 THEN NaN ELSE Fin(D)
  ELSE LET norm == (1000 - B)
                     + (B * documentLength) \div averageDocumentLength
           denominator == termFrequency * 1000 + (K * norm) \div 1000
       IN Fin((termFrequency * (K + 1000) * 1000) \div denominator + D)

calculateBM25(documentId, term) ==
  LET documentLength == IF documentId \in DOMAIN documentLengths
                        THEN documentLengths[documentId] ELSE 0
      termDocuments == Posting(term)
      termFrequency == IF Has(termDocuments, documentId) THEN 1 ELSE 0
  IN Times(IDF(Len(termDocuments)),
           FrequencyComponent(termFrequency, documentLength))

\* ------------------------------------------------------------ Levenshtein

Min3(a, b, c) == Min(a, Min(b, c))

\* Row rowIndex of the matrix from column colIndex on; previous is the row
\* above, row the cells of this row computed so far (cell c is at c + 1).
RECURSIVE MatrixRow(_, _, _, _, _, _)
MatrixRow(source, target, rowIndex, colIndex, previous, row) ==
  IF ~Evaluated(row) \/ colIndex > Len(source) THEN row
  ELSE LET cost == IF source[colIndex] = target[rowIndex] THEN 0 ELSE 1
           cell == Min3(previous[colIndex + 1] + 1,
                        row[colIndex] + 1,
                        previous[colIndex] + cost)
       IN MatrixRow(source, target, rowIndex, colIndex + 1, previous,
                    Append(row, cell))

RECURSIVE MatrixRows(_, _, _, _)
MatrixRows(source, target, rowIndex, previous) ==
  IF ~Evaluated(previous) \/ rowIndex > Len(target) THEN previous
  ELSE MatrixRows(source, target, rowIndex + 1,
                  MatrixRow(source, target, rowIndex, 1, previous,
                            <<rowIndex>>))

\* matrix[target.length][source.length]
levenshteinDistance(source, target) ==
  MatrixRows(source, target, 1,
             [c \in 1..(Len(source) + 1) |-> c - 1])[Len(source) + 1]

\* ----------------------------------------------------------------- filter

\* The filterFunction arguments of search: "none" is no filter; "ALL"
\* accepts every argument, undefined too; "onlyA" is
\* (document) => document.path === "/a", which throws on undefined.
Filters == {"none", "ALL", "onlyA"}

\* What filterFunction(document) does: "true", "false" or "throws".
FilterFunction(filter, document) ==
  IF filter = "ALL" THEN "true"
  ELSE IF IsUndefined(document) THEN "throws"
  ELSE IF "path" \in DOMAIN document /\ document["path"] = Str(IdA)
       THEN "true" ELSE "false"

GetDocument(documentId) ==
  IF documentId \in DOMAIN documents THEN documents[documentId]
  ELSE Undefined

\* ----------------------------------------------------------------- search

\* The URL-like path of DocUrl's title as a query.
UrlQuery == <<"/", "a", ".", "h", "t", "m", "l">>

\* The query strings handed to search.
Queries ==
  { <<"*">>, <<"*", "*">>, <<".", " ">>, <<"a">>,
    <<"A", "b", " ", "c">>, <<"a", "c", "b">>, UrlQuery }

Wildcard == <<"*">>

\* SearchTerms without the filter that drops the empty pieces.
SearchTermsWithEmpty(query) == split(toLowerCase(query))

\* query.toLowerCase().split(SPACE_OR_PUNCTUATION).filter(term => term.length)
SearchTerms(query) ==
  SelectSeq(split(toLowerCase(query)), LAMBDA term : Len(term) # 0)

startsWith(s, prefix) ==
  /\ Len(s) >= Len(prefix)
  /\ \A k \in 1..Len(prefix) : s[k] = prefix[k]

\* weights, in thousandths
WeightFuzzy == 450
WeightPrefix == 375

MaxFuzzyDistance == 6

\* Math.min(6, Math.round(searchTerm.length * 0.35))
MaxDistance(searchTerm) ==
  Min(MaxFuzzyDistance, (Len(searchTerm) * 35 + 50) \div 100)

IsPrefixMatch(searchTerm, indexedTerm) == startsWith(indexedTerm, searchTerm)

\* IsFuzzyMatch without the exclusion of prefix matches.
IsFuzzyMatchOverlapping(searchTerm, indexedTerm) ==
  levenshteinDistance(searchTerm, indexedTerm) <= MaxDistance(searchTerm)

IsFuzzyMatch(searchTerm, indexedTerm) ==
  /\ levenshteinDistance(searchTerm, indexedTerm) <= MaxDistance(searchTerm)
  /\ ~IsPrefixMatch(searchTerm, indexedTerm)

\* penaltyFactor of a matching pair.
PenaltyFactor(searchTerm, indexedTerm) ==
  IF IsPrefixMatch(searchTerm, indexedTerm)
  THEN LET distance == Len(indexedTerm) - Len(searchTerm)
       IN Fin((WeightPrefix * Len(indexedTerm) * 10)
                \div (10 * Len(indexedTerm) + 3 * distance))
  ELSE Fin((WeightFuzzy * Len(indexedTerm))
             \div (Len(indexedTerm)
                     + levenshteinDistance(searchTerm, indexedTerm)))

\* The number a string converts to: the empty string is 0, a string of
\* digits its value, any other string NaN.
RECURSIVE DigitsValue(_, _)
DigitsValue(s, k) ==
  IF k = 0 THEN 0
  ELSE 10 * DigitsValue(s, k - 1)
       + (CHOOSE d \in 0..9 : Digits[d + 1] = s[k])

ToNumber(v) ==
  IF v.t = "number" THEN Fin(v.n * 1000)
  ELSE IF \A k \in 1..Len(v.s) : \E d \in 1..10 : Digits[d] = v.s[k]
       THEN Fin(DigitsValue(v.s, Len(v.s)) * 1000)
       ELSE NaN

\* The factor of the custom boost field, in thousandths.
CustomBoostScale == 11

\* The score one visit of (field, indexedTerm, documentId) adds.
VisitScore(field, indexedTerm, penaltyFactor, documentId, document) ==
  LET bm25 == Times(calculateBM25(documentId, indexedTerm), penaltyFactor)
      specific ==
        IF documentId \in DOMAIN specificDocumentBoosts
             /\ specificDocumentBoosts[documentId] # 0
        THEN Times(bm25, Fin(specificDocumentBoosts[documentId]))
        ELSE bm25
      boosted ==
        IF field \in DOMAIN options.boost /\ options.boost[field] # 0
        THEN Times(specific, Fin(options.boost[field]))
        ELSE specific
  IN IF options.customBoostFactorField # <<>>
          /\ options.customBoostFactorField[1] \in DOMAIN document
     THEN Plus(boosted,
               Times(ToNumber(document[options.customBoostFactorField[1]]),
                     Fin(CustomBoostScale)))
     ELSE boosted

\* results.get(documentId)?.score || 0: NaN and 0 are falsy.
CurrentScore(results, documentId) ==
  IF \E i \in 1..Len(results) : results[i].documentId = documentId
  THEN LET score == results[CHOOSE i \in 1..Len(results) :
                              results[i].documentId = documentId].score
       IN IF score.nan THEN Fin(0) ELSE score
  ELSE Fin(0)

\* results.set(documentId, {score}) on a Map in insertion order.
ResultsSet(results, documentId, score) ==
  IF \E i \in 1..Len(results) : results[i].documentId = documentId
  THEN LET i == CHOOSE k \in 1..Len(results) :
                    results[k].documentId = documentId
       IN [results EXCEPT ![i].score = score]
  ELSE Append(results, [documentId |-> documentId, score |-> score])

\* VisitDocument remembering the filter's verdict: the filter is called on
\* the first visit of a document only.
VisitDocumentFilteringOnce(acc, field, indexedTerm, penaltyFactor, documentId, filter) ==
  LET document == GetDocument(documentId)
      seen == \E i \in 1..Len(acc.filterCalls) :
                acc.filterCalls[i] = documentId
  IN
  IF IsUndefined(document) THEN acc
  ELSE IF filter # "none" /\ FilterFunction(filter, document) # "true"
  THEN [acc EXCEPT !.filterCalls = IF seen THEN @ ELSE Append(@, documentId)]
  ELSE [ results |->
           ResultsSet(acc.results, documentId,
             Plus(CurrentScore(acc.results, documentId),
                  VisitScore(field, indexedTerm, penaltyFactor,
                             documentId, document))),
         filterCalls |-> IF filter = "none" \/ seen THEN acc.filterCalls
                         ELSE Append(acc.filterCalls, documentId) ]

\* VisitDocument calling the filter and scoring the document whatever the
\* filter answered.
VisitDocumentIgnoringFilter(acc, field, indexedTerm, penaltyFactor, documentId, filter) ==
  LET document == GetDocument(documentId) IN
  IF IsUndefined(document) THEN acc
  ELSE [ results |->
           ResultsSet(acc.results, documentId,
             Plus(CurrentScore(acc.results, documentId),
                  VisitScore(field, indexedTerm, penaltyFactor,
                             documentId, document))),
         filterCalls |-> IF filter = "none" THEN acc.filterCalls
                         ELSE Append(acc.filterCalls, documentId) ]

\* One document id of a matching posting set: acc holds the results Map and
\* the log of the ids whose document the filter was called with.
VisitDocument(acc, field, indexedTerm, penaltyFactor, documentId, filter) ==
  LET document == GetDocument(documentId) IN
  IF IsUndefined(document) THEN acc
  ELSE IF filter # "none" /\ FilterFunction(filter, document) # "true"
  THEN [acc EXCEPT !.filterCalls = Append(@, documentId)]
  ELSE [ results |->
           ResultsSet(acc.results, documentId,
             Plus(CurrentScore(acc.results, documentId),
                  VisitScore(field, indexedTerm, penaltyFactor,
                             documentId, document))),
         filterCalls |-> IF filter = "none" THEN acc.filterCalls
                         ELSE Append(acc.filterCalls, documentId) ]

\* docIds.forEach over docIds[lo..hi], in order: the lower half and then the
\* upper half, which keeps the evaluation depth logarithmic in the size of
\* the posting set.
RECURSIVE VisitPosting(_, _, _, _, _, _, _, _)
VisitPosting(acc, field, indexedTerm, penaltyFactor, docIds, lo, hi, filter) ==
  IF ~Evaluated(acc) \/ lo > hi THEN acc
  ELSE IF lo = hi
  THEN VisitDocument(acc, field, indexedTerm, penaltyFactor, docIds[lo],
                     filter)
  ELSE VisitPosting(
         VisitPosting(acc, field, indexedTerm, penaltyFactor, docIds,
                      lo, (lo + hi) \div 2, filter),
         field, indexedTerm, penaltyFactor, docIds,
         (lo + hi) \div 2 + 1, hi, filter)

\* invertedIndex.forEach
RECURSIVE ScanIndex(_, _, _, _, _)
ScanIndex(acc, field, searchTerm, i, filter) ==
  IF ~Evaluated(acc) \/ i > Len(invertedIndex) THEN acc
  ELSE LET indexedTerm == invertedIndex[i].term IN
       ScanIndex(
         IF IsPrefixMatch(searchTerm, indexedTerm)
              \/ IsFuzzyMatch(searchTerm, indexedTerm)
         THEN VisitPosting(acc, field, indexedTerm,
                           PenaltyFactor(searchTerm, indexedTerm),
                           invertedIndex[i].ids, 1,
                           Len(invertedIndex[i].ids), filter)
         ELSE acc,
         field, searchTerm, i + 1, filter)

\* searchTerms.forEach
RECURSIVE ScanTerms(_, _, _, _, _)
ScanTerms(acc, field, searchTerms, t, filter) ==
  IF ~Evaluated(acc) \/ t > Len(searchTerms) THEN acc
  ELSE ScanTerms(ScanIndex(acc, field, searchTerms[t], 1, filter),
                 field, searchTerms, t + 1, filter)

\* SkipsField skipping no field.
SkipsFieldNever(field) == FALSE

\* Whether the candidate loop skips a configured field.
SkipsField(field) ==
  options.customBoostFactorField # <<>>
    /\ field = options.customBoostFactorField[1]

\* options.fields.forEach
RECURSIVE ScanFields(_, _, _, _)
ScanFields(acc, k, searchTerms, filter) ==
  IF ~Evaluated(acc) \/ k > Len(options.fields) THEN acc
  ELSE ScanFields(
         IF SkipsField(options.fields[k]) THEN acc
         ELSE ScanTerms(acc, options.fields[k], searchTerms, 1, filter),
         k + 1, searchTerms, filter)

\* The score above which a result is returned, in thousandths.
ScoreThreshold == 2100

\* (a, b) => b.score - a.score, a NaN result read as 0 by Array.sort:
\* negative when a sorts before b.
ComesBefore(a, b) == Greater(a.score, b.score)

\* Whether the comparator is a consistent comparison function for the list:
\* a NaN score compares equal to every score, so it is consistent only when
\* the other scores are all equal.
ConsistentComparator(list) ==
  \/ \A i \in 1..Len(list) : ~list[i].score.nan
  \/ \A i, j \in 1..Len(list) :
       (~list[i].score.nan /\ ~list[j].score.nan)
         => list[i].score = list[j].score

\* The place of list[i] in the order a stable sort with a consistent
\* comparator leaves: after every entry that sorts before it and after the
\* earlier entries it compares equal to.
SortedPlace(list, i) ==
  1 + Cardinality({ j \in 1..Len(list) :
                      \/ ComesBefore(list[j], list[i])
                      \/ j < i /\ ~ComesBefore(list[i], list[j]) })

StableSort(list) ==
  [place \in 1..Len(list) |->
     list[CHOOSE i \in 1..Len(list) : SortedPlace(list, i) = place]]

Orderings(list) ==
  { [i \in 1..Len(list) |-> list[p[i]]] :
      p \in { q \in [1..Len(list) -> 1..Len(list)] :
                \A i, j \in 1..Len(list) : q[i] = q[j] => i = j } }

\* The orders Array.prototype.sort may leave the list in: the stable order
\* of a consistent comparator, and otherwise an implementation-defined
\* order (ECMAScript, Array.prototype.sort).
SortOutcomes(list) ==
  IF ConsistentComparator(list) THEN { StableSort(list) }
  ELSE Orderings(list)

\* .filter((result) => result.score > 2.1)
AboveThreshold(list) ==
  SelectSeq(list, LAMBDA result : Greater(result.score, Fin(ScoreThreshold)))

\* Slice without the cap.
SliceWithoutCap(list) == list

\* .slice(0, 34)
Slice(list) == SubSeq(list, 1, Min(Len(list), ResultCap))

\* Array.from(results).map(...): the list the sort receives.
Hydrate(results) ==
  [i \in 1..Len(results) |->
     [ documentId |-> results[i].documentId,
       document |-> GetDocument(results[i].documentId),
       textMatch |-> results[i].score,
       score |-> results[i].score ]]

\* The lists the general path may return for the accumulated results.
Assemble(results) ==
  { Slice(AboveThreshold(sorted)) : sorted \in SortOutcomes(Hydrate(results)) }

\* The wildcard path on the configured list: every id is mapped to an entry
\* and then, with a filter, the entries are filtered in order; threw when
\* the filter raised, filterCalls the ids whose document it was called with.
WildcardFrom(initialResults, filter) ==
  LET mapped == [i \in 1..Len(initialResults) |->
                   [ documentId |-> initialResults[i],
                     score |-> Fin(1000),
                     document |-> GetDocument(initialResults[i]) ]]
      throwing == { i \in 1..Len(initialResults) :
                      FilterFunction(filter, mapped[i].document) = "throws" }
  IN IF filter = "none"
     THEN [threw |-> FALSE, out |-> mapped, filterCalls |-> <<>>]
     ELSE IF throwing # {}
     THEN [ threw |-> TRUE, out |-> <<>>,
            filterCalls |->
              SubSeq(initialResults, 1,
                     CHOOSE i \in throwing : \A j \in throwing : i <= j) ]
     ELSE [ threw |-> FALSE,
            out |-> SelectSeq(mapped, LAMBDA result :
                      FilterFunction(filter, result.document) = "true"),
            filterCalls |-> initialResults ]

\* WildcardSearch with the cap of the general path applied.
WildcardSearchCapped(filter) ==
  IF options.initialResults = <<>>
  THEN [threw |-> FALSE, out |-> <<>>, filterCalls |-> <<>>]
  ELSE LET w == WildcardFrom(options.initialResults[1], filter)
       IN [w EXCEPT !.out = SubSeq(@, 1, Min(Len(@), ResultCap))]

WildcardSearch(filter) ==
  IF options.initialResults = <<>>
  THEN [threw |-> FALSE, out |-> <<>>, filterCalls |-> <<>>]
  ELSE WildcardFrom(options.initialResults[1], filter)

\* What search(query, filter) may leave in ret.
SearchOutcomes(query, filter) ==
  IF query = Wildcard
  THEN LET w == WildcardSearch(filter)
       IN { Returned("search", w.threw, query, filter, <<>>, <<>>,
                     w.filterCalls, w.out) }
  ELSE LET searchTerms == SearchTerms(query)
           acc == ScanFields([results |-> <<>>, filterCalls |-> <<>>], 1,
                             searchTerms, filter)
       IN { Returned("search", FALSE, query, filter, searchTerms,
                     acc.results, acc.filterCalls, out) :
              out \in Assemble(acc.results) }

\* Search that also writes averageDocumentLength.
SearchWritingAverage(query, filter) ==
  /\ ret' \in SearchOutcomes(query, filter)
  /\ averageDocumentLength' = totalDocuments
  /\ UNCHANGED <<documents, invertedIndex, documentLengths, totalDocuments,
                 options, specificDocumentBoosts>>

Search(query, filter) ==
  /\ ret' \in SearchOutcomes(query, filter)
  /\ UNCHANGED <<engine, options, specificDocumentBoosts>>

\* ------------------------------------------------------------------- next

\* One more document than the cap, ids "1", "2", ..., the same title and
\* rising ranks.
BulkDocuments ==
  [i \in 1..(ResultCap + 1) |->
     [path |-> Num(i), title |-> Str(<<"a", "b">>), rank |-> Num(200 + i)]]

\* The store holds the first totalDocuments bulk documents and nothing else.
BulkPrefix ==
  /\ totalDocuments < Len(BulkDocuments)
  /\ DOMAIN documents = {NatToString(i) : i \in 1..totalDocuments}

\* The bulk load is made document by document on a fresh engine; single
\* documents are added, at most MaxAdds times, to an engine that holds no
\* bulk document.
Next ==
  \/ \E document \in Documents :
       /\ totalDocuments < MaxAdds
       /\ NatToString(1) \notin DOMAIN documents
       /\ AddDocument(document)
       /\ UNCHANGED browser
  \/ /\ BulkPrefix
     /\ AddDocument(BulkDocuments[totalDocuments + 1])
     /\ UNCHANGED browser
  \/ \E query \in Queries, filter \in Filters :
       Search(query, filter) /\ UNCHANGED browser

Spec == Init /\ [][Next]_vars

\* ------------------------------------------------------------------ cache

\* The hours a cached CSV stays valid.
MaxAgeHours == 84

\* The hours one step of the clock takes, and the steps it makes.
TickHours == 42
MaxTicks == 2

\* The search messages the page posts.
MaxSearches == 1

\* data-version values of the script element.
V1 == <<"v", "1">>
V2 == <<"v", "2">>

\* getCachedCSV(): the cached documents as a one-element sequence, or the
\* empty sequence for undefined.  A missing attribute is undefined and a
\* missing item null, which are not === ; Number(null) is 0.
GetCachedCSV ==
  LET lastUpdated == IF storage.lastUpdated = <<>> THEN 0
                     ELSE storage.lastUpdated[1]
  IN IF /\ storage.csv # <<>>
        /\ page.version # <<>> /\ page.version = storage.lastVersion
        /\ page.clock - lastUpdated < MaxAgeHours
     THEN storage.csv
     ELSE <<>>

\* saveCachedCSV up to its await: IndexedDB holds wholeData.
SaveCachedCSVSet(wholeData) == [storage EXCEPT !.csv = <<wholeData>>]

\* saveCachedCSV after its await: sbabKompassenLastVersion is the time
\* stamp, and then the script's version when it has one.
SaveCachedCSVVersion ==
  [storage EXCEPT !.lastVersion =
     IF page.version # <<>> THEN page.version
     ELSE << NatToString(page.clock) >>]

\* ------------------------------------------------------------------- hook

\* The documents of a cached CSV, and the chunks of the fetched one.
CachedDocuments == <<DocA, DocB>>
CsvChunks == << <<DocA>>, <<DocB, DocC>> >>

\* What IndexedDB and localStorage may hold when the page loads: nothing;
\* a CSV with a current version and a fresh sbabKompassenLastUpdated; a CSV
\* with a current version and no sbabKompassenLastUpdated.
StorageStates ==
  { EmptyStorage,
    [csv |-> <<CachedDocuments>>, lastVersion |-> <<V1>>,
     lastUpdated |-> <<ClockStart - 1>>],
    [csv |-> <<CachedDocuments>>, lastVersion |-> <<V1>>,
     lastUpdated |-> <<>>] }

\* A message to the worker: event.data with its action, its data member
\* and its documents member (absent members are empty sequences).
Message(action, data, batch) ==
  [action |-> action, data |-> data, documents |-> batch]

\* const cachedCSV = await getCachedCSV()
HookGetCache ==
  /\ hook.pc = "start"
  /\ hook' = [hook EXCEPT !.pc = "loaded", !.cachedCSV = GetCachedCSV]
  /\ UNCHANGED <<engine, options, specificDocumentBoosts, ret, storage, page,
                 inbox, worker>>

\* The worker is made and "create" posted; with a cached CSV the
\* insertMultiple message carries it in a documents member.
HookStartWorker ==
  /\ hook.pc = "loaded"
  /\ IF hook.cachedCSV # <<>>
     THEN /\ inbox' = inbox \o << Message("create", <<>>, <<>>),
                                  Message("insertMultiple", <<>>,
                                          hook.cachedCSV) >>
          /\ hook' = [hook EXCEPT !.pc = "done"]
     ELSE /\ inbox' = Append(inbox, Message("create", <<>>, <<>>))
          /\ hook' = [hook EXCEPT !.pc = "streaming"]
  /\ UNCHANGED <<engine, options, specificDocumentBoosts, ret, storage, page,
                 worker>>

\* initializedZstWorker.onmessage: the parsed chunk is posted in a data
\* member and appended to wholeData; after the last one saveCachedCSV is
\* called and runs up to its await.
HookChunk ==
  /\ hook.pc = "streaming"
  /\ LET parsedCSVData == CsvChunks[hook.chunk]
         isLast == hook.chunk = Len(CsvChunks)
         wholeData == hook.wholeData \o parsedCSVData
     IN /\ inbox' = Append(inbox,
                           Message("insertMultiple",
                                   << [documents |-> parsedCSVData,
                                       isLast |-> isLast] >>, <<>>))
        /\ hook' = [hook EXCEPT !.wholeData = wholeData,
                                !.chunk = @ + 1,
                                !.pc = IF isLast THEN "saving" ELSE @]
        /\ storage' = IF isLast THEN SaveCachedCSVSet(wholeData)
                      ELSE storage
  /\ UNCHANGED <<engine, options, specificDocumentBoosts, ret, page, worker>>

\* saveCachedCSV goes on after its await and completes.
HookSaved ==
  /\ hook.pc = "saving"
  /\ storage' = SaveCachedCSVVersion
  /\ hook' = [hook EXCEPT !.pc = "done", !.savedAt = <<page.clock>>,
                          !.savedVersion = page.version]
  /\ UNCHANGED <<engine, options, specificDocumentBoosts, ret, page, inbox,
                 worker>>

\* The queries and filters of the search messages of the page.
PageQueries == { <<"a">>, Wildcard }
PageFilters == { "ALL", "onlyA" }

\* The page posts a search message to the worker the hook returned.
PostSearch(query, filter) ==
  /\ hook.pc \notin {"start", "loaded"}
  /\ hook.searches < MaxSearches
  /\ inbox' = Append(inbox,
                     Message("search",
                             << [query |-> query, filter |-> filter] >>,
                             <<>>))
  /\ hook' = [hook EXCEPT !.searches = @ + 1]
  /\ UNCHANGED <<engine, options, specificDocumentBoosts, ret, storage, page,
                 worker>>

\* Time passes.
Tick ==
  /\ page.clock < ClockStart + MaxTicks * TickHours
  /\ page' = [page EXCEPT !.clock = @ + TickHours]
  /\ UNCHANGED <<engine, options, specificDocumentBoosts, ret, storage, hook,
                 inbox, worker>>

\* ----------------------------------------------------------------- worker

\* documents.forEach(addDocument) from document k on: the engine the
\* batch leaves, and whether an addDocument threw (which ends the loop).
RECURSIVE AddAll(_, _, _)
AddAll(e, batch, k) ==
  IF ~Evaluated(e) \/ k > Len(batch) THEN [engine |-> e, threw |-> FALSE]
  ELSE IF AddThrows(batch[k]) THEN [engine |-> e, threw |-> TRUE]
  ELSE AddAll(AddTo(e, batch[k]), batch, k + 1)

\* The ids of the documents a message carries, in whichever member.
BatchIds(message) ==
  LET batch == IF message.data # <<>> THEN message.data[1].documents
               ELSE IF message.documents # <<>> THEN message.documents[1]
               ELSE <<>>
  IN { toString(batch[k][options.idField]) :
         k \in { n \in 1..Len(batch) : ~AddThrows(batch[n]) } }

\* case "create"
HandleCreate ==
  /\ documents' = EmptyMap
  /\ invertedIndex' = <<>>
  /\ documentLengths' = EmptyMap
  /\ totalDocuments' = 0
  /\ averageDocumentLength' = 0
  /\ ret' = NoCall("constructor", FALSE)
  /\ worker' = [worker EXCEPT !.created = TRUE, !.last = "create",
                              !.threw = FALSE]

\* case "insertMultiple": data.documents throws a TypeError when the
\* message has no data member, and addDocument when there is no engine.
HandleInsertMultiple(message) ==
  LET reads == message.data # <<>>
      batch == IF reads THEN message.data[1].documents ELSE <<>>
      added == IF reads /\ worker.created THEN AddAll(Engine, batch, 1)
               ELSE [engine |-> Engine,
                     threw |-> ~reads \/ batch # <<>>]
  IN /\ documents' = added.engine.documents
     /\ invertedIndex' = added.engine.invertedIndex
     /\ documentLengths' = added.engine.documentLengths
     /\ totalDocuments' = added.engine.totalDocuments
     /\ ret' = NoCall("addDocument", added.threw)
     /\ worker' = [worker EXCEPT !.last = "insertMultiple",
                                 !.threw = added.threw,
                                 !.inserts = @ + 1,
                                 !.batchIds = @ \cup BatchIds(message)]
     /\ UNCHANGED averageDocumentLength

\* case "search"
HandleSearch(message) ==
  /\ IF worker.created
     THEN ret' \in SearchOutcomes(message.data[1].query,
                                  message.data[1].filter)
     ELSE ret' = Returned("search", TRUE, message.data[1].query,
                          message.data[1].filter, <<>>, <<>>, <<>>, <<>>)
  /\ worker' = [worker EXCEPT !.last = "search", !.threw = ret'.threw]
  /\ UNCHANGED engine

\* self.onmessage on the oldest unhandled message.
HandleMessage ==
  /\ inbox # <<>>
  /\ inbox' = Tail(inbox)
  /\ IF Head(inbox).action = "create" THEN HandleCreate
     ELSE IF Head(inbox).action = "insertMultiple"
     THEN HandleInsertMultiple(Head(inbox))
     ELSE HandleSearch(Head(inbox))
  /\ UNCHANGED <<options, specificDocumentBoosts, storage, page, hook>>

\* The page loads with some storage and a script with or without a version.
InitPage ==
  /\ storage \in StorageStates
  /\ page \in [version : {<<>>, <<V1>>, <<V2>>}, clock : {ClockStart}]
  /\ hook = IdleHook
  /\ inbox = <<>>
  /\ worker = IdleWorker
  /\ options \in OptionSets
  /\ specificDocumentBoosts =
       BoostMap(options.specificDocumentBoosts,
                Len(options.specificDocumentBoosts))
  /\ documents = EmptyMap
  /\ invertedIndex = <<>>
  /\ documentLengths = EmptyMap
  /\ totalDocuments = 0
  /\ averageDocumentLength = 0
  /\ ret = NoCall("constructor", FALSE)

NextPage ==
  \/ HookGetCache
  \/ HookStartWorker
  \/ HookChunk
  \/ HookSaved
  \/ \E query \in PageQueries, filter \in PageFilters :
       PostSearch(query, filter)
  \/ Tick
  \/ HandleMessage

SpecPage == InitPage /\ [][NextPage]_vars

\* ----------------------------------------------------------------- claims

StoreIds == DOMAIN documents

IsSearch == ret.op = "search"

IsGeneralSearch == IsSearch /\ ret.query # Wildcard

IsWildcardSearch == IsSearch /\ ret.query = Wildcard

\* How often the filter was called with the document of documentId.
CallCount(documentId) ==
  Cardinality({i \in 1..Len(ret.filterCalls) :
                 ret.filterCalls[i] = documentId})

\* C1: after any sequence of addDocument calls, re-adding an id included,
\* totalDocuments is the number of entries of the document store.
C1_TotalIsStoreSize == totalDocuments = Cardinality(StoreIds)

\* C2: in every reachable state every id of a posting set is a key of the
\* document store, and every key of the store has a documentLengths entry.
C2_IndexedIdsStored ==
  /\ \A i \in 1..Len(invertedIndex) :
       \A j \in 1..Len(invertedIndex[i].ids) :
         invertedIndex[i].ids[j] \in StoreIds
  /\ StoreIds \subseteq DOMAIN documentLengths

\* A failed addDocument on an engine that holds documents and postings.
C2_Witness ==
  /\ ret.op = "addDocument" /\ ret.threw
  /\ Cardinality(StoreIds) >= 2
  /\ Len(invertedIndex) >= 2

\* C3: a wildcard search skips an id of initialResults that is not in the
\* store: no returned entry is for it and the filter is not called on it.
C3_DanglingIdSkipped ==
  IsWildcardSearch =>
    /\ ~ret.threw
    /\ \A i \in 1..Len(ret.out) : ret.out[i].documentId \in StoreIds
    /\ \A i \in 1..Len(ret.filterCalls) : ret.filterCalls[i] \in StoreIds

\* The entries the wildcard path is to return when every configured id is
\* stored: one per id, in order, score 1, those the filter accepts.
ExpectedWildcard ==
  LET ids == options.initialResults[1]
      all == [i \in 1..Len(ids) |->
                [ documentId |-> ids[i], score |-> Fin(1000),
                  document |-> documents[ids[i]] ]]
  IN SelectSeq(all, LAMBDA r :
       ret.filter = "none" \/ FilterFunction(ret.filter, r.document) = "true")

\* C4: a wildcard search with every id of initialResults in the store
\* returns one entry per configured id, in the configured order, with score
\* 1 and the stored document, those the filter accepts; no threshold, no
\* sort, no cap.
C4_WildcardReturnsInitialResults ==
  ( /\ IsWildcardSearch
    /\ options.initialResults # <<>>
    /\ \A i \in 1..Len(options.initialResults[1]) :
         options.initialResults[1][i] \in StoreIds )
  => (~ret.threw /\ ret.out = ExpectedWildcard)

\* A wildcard search that returned more entries than the cap.
C4_Witness ==
  /\ IsWildcardSearch
  /\ \A i \in 1..Len(options.initialResults[1]) :
       options.initialResults[1][i] \in StoreIds
  /\ Len(ret.out) > ResultCap

\* C5: a general search returns at most 34 entries, each with a score that
\* is a number greater than 2.1.
C5_CapAndThreshold ==
  IsGeneralSearch =>
    /\ Len(ret.out) <= ResultCap
    /\ \A i \in 1..Len(ret.out) :
         ~ret.out[i].score.nan /\ ret.out[i].score.m > ScoreThreshold

\* A general search with more candidates above the threshold than the cap.
C5_Witness ==
  /\ IsGeneralSearch
  /\ Len(AboveThreshold(ret.results)) > ResultCap
  /\ Len(ret.out) = ResultCap

\* C6: a general search returns its entries by score non-increasing, and no
\* candidate above the threshold that was left out has a score greater than
\* a returned one.
C6_SortedByScore ==
  IsGeneralSearch =>
    /\ \A i, j \in 1..Len(ret.out) :
         i < j => ret.out[i].score.m >= ret.out[j].score.m
    /\ \A k \in 1..Len(ret.results) : \A i \in 1..Len(ret.out) :
         ( /\ Greater(ret.results[k].score, Fin(ScoreThreshold))
           /\ \A j \in 1..Len(ret.out) :
                ret.out[j].documentId # ret.results[k].documentId )
         => ~Greater(ret.results[k].score, ret.out[i].score)

\* C7: addDocument of a document without the id field raises an error and
\* leaves the document store, the inverted index, documentLengths and
\* totalDocuments as they were.
C7_FailedAddKeepsState ==
  [][\A document \in Documents :
       (AddThrows(document) /\ AddDocument(document))
         => (ret'.threw /\ UNCHANGED engine)]_vars

\* A failed addDocument on an engine that holds documents.
C7_Witness ==
  /\ ret.op = "addDocument" /\ ret.threw
  /\ totalDocuments > 0
  /\ Len(invertedIndex) > 0

\* C8: during one search with a filter the filter is called at most once
\* for each document.
C8_FilterOncePerDocument ==
  (IsSearch /\ ret.filter # "none") =>
    \A documentId \in StoreIds : CallCount(documentId) <= 1

\* The visits of the candidate loop that reach documentId: a searched field,
\* a query term and a matching indexed term whose posting set holds the id.
VisitsOf(documentId) ==
  { v \in (1..Len(options.fields)) \X (1..Len(ret.searchTerms))
            \X (1..Len(invertedIndex)) :
      /\ ~SkipsField(options.fields[v[1]])
      /\ \/ IsPrefixMatch(ret.searchTerms[v[2]], invertedIndex[v[3]].term)
         \/ IsFuzzyMatch(ret.searchTerms[v[2]], invertedIndex[v[3]].term)
      /\ Has(invertedIndex[v[3]].ids, documentId) }

\* C8 amended: during one general search with a filter the filter is called
\* once for every visit of a stored document: one call per searched field,
\* query term and matching indexed term that lead to it.
C8_FilterOncePerVisit ==
  (IsGeneralSearch /\ ret.filter # "none") =>
    /\ \A documentId \in StoreIds :
         CallCount(documentId) = Cardinality(VisitsOf(documentId))
    /\ \A i \in 1..Len(ret.filterCalls) : ret.filterCalls[i] \in StoreIds

\* A general search in which the filter was called twice for one document.
C8_Witness ==
  /\ IsGeneralSearch /\ ret.filter # "none"
  /\ \E documentId \in StoreIds : CallCount(documentId) >= 2

\* C9: in a search with a filter no score is accumulated for a document the
\* filter rejects, and every returned entry's document satisfies the filter.
C9_ReturnedPassFilter ==
  (IsSearch /\ ret.filter # "none" /\ ~ret.threw) =>
    /\ \A i \in 1..Len(ret.results) :
         FilterFunction(ret.filter, GetDocument(ret.results[i].documentId))
           = "true"
    /\ \A i \in 1..Len(ret.out) :
         FilterFunction(ret.filter, ret.out[i].document) = "true"

\* A general search whose filter rejected a candidate and that returned
\* another one.
C9_Witness ==
  /\ IsGeneralSearch /\ ret.filter # "none"
  /\ \E i \in 1..Len(ret.filterCalls) :
       FilterFunction(ret.filter, GetDocument(ret.filterCalls[i])) = "false"
  /\ Len(ret.out) > 0

OnlySeparators(query) ==
  /\ Len(query) >= 1
  /\ \A k \in 1..Len(query) : query[k] \in SPACE_OR_PUNCTUATION

\* C10: a search whose query holds separators only derives no search term
\* and returns the empty list.
C10_SeparatorQueryEmpty ==
  (IsSearch /\ OnlySeparators(ret.query)) =>
    (ret.searchTerms = <<>> /\ ret.out = <<>>)

\* C10 amended: a search whose query holds separators only and is not the
\* wildcard "*" derives no search term and returns the empty list.
C10_SeparatorQueryEmptyUnlessWildcard ==
  (IsGeneralSearch /\ OnlySeparators(ret.query)) =>
    (~ret.threw /\ ret.searchTerms = <<>> /\ ret.out = <<>>)

\* A separator-only query, not the wildcard, on an engine with postings.
C10_Witness ==
  /\ IsGeneralSearch /\ OnlySeparators(ret.query)
  /\ Len(invertedIndex) >= 2

\* C11: every key of the inverted index is a non-empty string equal to its
\* own lowercase form.
C11_IndexTermsLowercase ==
  \A i \in 1..Len(invertedIndex) :
    /\ invertedIndex[i].term # <<>>
    /\ toLowerCase(invertedIndex[i].term) = invertedIndex[i].term

\* The index holds a term split from a value with an upper-case letter and a
\* separator, and a URL-like path kept whole.
C11_Witness ==
  /\ \E i \in 1..Len(invertedIndex) : invertedIndex[i].term = UrlQuery
  /\ \E i \in 1..Len(invertedIndex) : invertedIndex[i].term = <<"c">>
  /\ IdB \in StoreIds

\* The stored documents with a configured string field whose lowercase form
\* is the URL-like path query, which addDocument indexed whole.
UrlDocuments(query) ==
  { documentId \in StoreIds :
      \E k \in 1..Len(options.fields) :
        /\ options.fields[k] \in DOMAIN documents[documentId]
        /\ documents[documentId][options.fields[k]].t = "string"
        /\ toLowerCase(documents[documentId][options.fields[k]].s) = query
        /\ IsUrlPath(query) }

\* C12: a search whose query is the URL-like path of a stored document's
\* field matches that indexed term as a prefix match, so the document is a
\* scored candidate.
C12_UrlQueryMatchesWholeTerm ==
  (IsGeneralSearch /\ ret.filter = "none") =>
    \A documentId \in UrlDocuments(toLowerCase(ret.query)) :
      /\ \E t \in 1..Len(ret.searchTerms) :
           IsPrefixMatch(ret.searchTerms[t], toLowerCase(ret.query))
      /\ \E i \in 1..Len(ret.results) :
           ret.results[i].documentId = documentId

\* C13: search leaves the document store, the inverted index,
\* documentLengths, totalDocuments and averageDocumentLength as they were,
\* and a search repeated with no addDocument in between returns the same
\* list (where the order Array.prototype.sort leaves is defined).
C13_SearchReadOnly ==
  [][ret'.op = "search" =>
       /\ UNCHANGED <<engine, options, specificDocumentBoosts>>
       /\ ( /\ IsSearch
            /\ ret'.query = ret.query /\ ret'.filter = ret.filter
            /\ ConsistentComparator(Hydrate(ret.results)) )
          => ret' = ret]_vars

\* A search that returned two entries from an engine with three documents.
C13_Witness ==
  /\ IsSearch /\ ~ret.threw
  /\ Len(ret.out) >= 2
  /\ Cardinality(StoreIds) >= 3

\* The configured fields other than customBoostFactorField, by position.
NonCustomFields ==
  { k \in 1..Len(options.fields) :
      \/ options.customBoostFactorField = <<>>
      \/ options.fields[k] # options.customBoostFactorField[1] }

\* The matching pairs (query term, indexed term) of the last search whose
\* posting set holds documentId.
MatchingPairs(documentId) ==
  { p \in (1..Len(ret.searchTerms)) \X (1..Len(invertedIndex)) :
      /\ \/ IsPrefixMatch(ret.searchTerms[p[1]], invertedIndex[p[2]].term)
         \/ IsFuzzyMatch(ret.searchTerms[p[1]], invertedIndex[p[2]].term)
      /\ Has(invertedIndex[p[2]].ids, documentId) }

\* The score of documentId after one contribution for every configured
\* field k, query term t and indexed term i numbered lo..hi (field-major)
\* that is a matching triple of a field other than the custom-boost field.
RECURSIVE ContributionsIn(_, _, _, _)
ContributionsIn(documentId, lo, hi, score) ==
  LET terms == Len(ret.searchTerms)
      keys == Len(invertedIndex)
      k == (lo \div (terms * keys)) + 1
      t == ((lo \div keys) % terms) + 1
      i == (lo % keys) + 1
  IN IF ~Evaluated(score) \/ lo > hi THEN score
     ELSE IF lo = hi
     THEN IF k \in NonCustomFields /\ <<t, i>> \in MatchingPairs(documentId)
          THEN Plus(IF score.nan THEN Fin(0) ELSE score,
                    VisitScore(options.fields[k], invertedIndex[i].term,
                               PenaltyFactor(ret.searchTerms[t],
                                             invertedIndex[i].term),
                               documentId, documents[documentId]))
          ELSE score
     ELSE ContributionsIn(documentId, ((lo + hi) \div 2) + 1, hi,
            ContributionsIn(documentId, lo, (lo + hi) \div 2, score))

\* C14: in a general search every matching triple (query term, indexed
\* term, document of its posting set) contributes to the document's score
\* once per configured field other than customBoostFactorField, whichever
\* field the term came from.
C14_ContributionPerField ==
  (IsGeneralSearch /\ ret.filter \in {"none", "ALL"}) =>
    \A documentId \in StoreIds :
      LET visits == Cardinality(NonCustomFields)
                      * Cardinality(MatchingPairs(documentId))
          last == Len(options.fields) * Len(ret.searchTerms)
                    * Len(invertedIndex) - 1
      IN /\ ret.filter = "ALL" => CallCount(documentId) = visits
         /\ IF visits = 0
            THEN \A r \in 1..Len(ret.results) :
                   ret.results[r].documentId # documentId
            ELSE \E r \in 1..Len(ret.results) :
                   /\ ret.results[r].documentId = documentId
                   /\ ret.results[r].score =
                        ContributionsIn(documentId, 0, last, Fin(0))

\* One matching triple of a document with no body field contributed twice,
\* once for each of the fields title and body.
C14_Witness ==
  /\ IsGeneralSearch /\ ret.filter = "ALL"
  /\ options.fields = <<"title", "body">>
  /\ \E documentId \in StoreIds :
       /\ "body" \notin DOMAIN documents[documentId]
       /\ Cardinality(MatchingPairs(documentId)) = 1
       /\ CallCount(documentId) = 2

\* Whether s from position i and t from position j are within edit distance
\* d (insertions, deletions and substitutions of one character).
RECURSIVE WithinDistance(_, _, _, _, _)
WithinDistance(s, i, t, j, d) ==
  IF d < 0 THEN FALSE
  ELSE IF i > Len(s) THEN Len(t) - j + 1 <= d
  ELSE IF j > Len(t) THEN Len(s) - i + 1 <= d
  ELSE IF s[i] = t[j] THEN WithinDistance(s, i + 1, t, j + 1, d)
  ELSE \/ WithinDistance(s, i + 1, t, j, d - 1)
       \/ WithinDistance(s, i, t, j + 1, d - 1)
       \/ WithinDistance(s, i + 1, t, j + 1, d - 1)

\* min(6, round(0.35 * n)): the integer nearest to 0.35 n, halves up.
RoundedBound(n) ==
  LET nearest == CHOOSE b \in 0..n :
                   100 * b - 50 <= 35 * n /\ 35 * n < 100 * b + 50
  IN IF nearest < 6 THEN nearest ELSE 6

\* The terms of the queries a search is made with.
QueryTerms ==
  UNION { { SearchTerms(query)[k] : k \in 1..Len(SearchTerms(query)) } :
            query \in Queries }

\* C15: for a query term q and an indexed term t, t is a prefix match iff it
\* starts with q and a fuzzy match iff it does not and levenshtein(q, t) <=
\* min(6, round(0.35 |q|)); the two exclude each other, a one-character
\* term has no fuzzy match, and a search scores the documents of the
\* matching terms only.
C15_MatchClassification ==
  /\ \A q \in QueryTerms : \A i \in 1..Len(invertedIndex) :
       LET t == invertedIndex[i].term
           starts == Len(t) >= Len(q) /\ SubSeq(t, 1, Len(q)) = q
       IN /\ IsPrefixMatch(q, t) <=> starts
          /\ IsFuzzyMatch(q, t) <=>
               (~starts /\ WithinDistance(q, 1, t, 1, RoundedBound(Len(q))))
          /\ ~(IsPrefixMatch(q, t) /\ IsFuzzyMatch(q, t))
          /\ Len(q) = 1 => ~IsFuzzyMatch(q, t)
  /\ (IsGeneralSearch /\ ret.filter = "none") =>
       \A r \in 1..Len(ret.results) :
         \E k \in 1..Len(ret.searchTerms), i \in 1..Len(invertedIndex) :
           LET q == ret.searchTerms[k]
               t == invertedIndex[i].term
           IN /\ Has(invertedIndex[i].ids, ret.results[r].documentId)
              /\ \/ Len(t) >= Len(q) /\ SubSeq(t, 1, Len(q)) = q
                 \/ WithinDistance(q, 1, t, 1, RoundedBound(Len(q)))

\* A search with a one-character term that is one edit from an indexed term
\* it is no prefix of, and with a fuzzy match of a longer term.
C15_Witness ==
  /\ IsGeneralSearch /\ ret.filter = "none"
  /\ \E k \in 1..Len(ret.searchTerms), i \in 1..Len(invertedIndex) :
       /\ Len(ret.searchTerms[k]) = 1
       /\ ~IsPrefixMatch(ret.searchTerms[k], invertedIndex[i].term)
       /\ WithinDistance(ret.searchTerms[k], 1, invertedIndex[i].term, 1, 1)
  /\ \E k \in 1..Len(ret.searchTerms), i \in 1..Len(invertedIndex) :
       IsFuzzyMatch(ret.searchTerms[k], invertedIndex[i].term)

\* The non-empty terms the tokenizer derives from the configured
\* string-valued fields of the document stored under documentId.
DocumentTerms(documentId) ==
  UNION { { FieldTerms(documents[documentId][options.fields[k]].s)[n] :
              n \in 1..Len(FieldTerms(
                             documents[documentId][options.fields[k]].s)) }
            \ {<<>>} :
          k \in { f \in 1..Len(options.fields) :
                    /\ options.fields[f] \in DOMAIN documents[documentId]
                    /\ documents[documentId][options.fields[f]].t
                         = "string" } }

\* C18: when no id was added twice, documentId is in the posting set of a
\* term iff the term is one the tokenizer derives from a configured
\* string-valued field of the document stored under documentId.
C18_IndexAgreesWithStore ==
  totalDocuments = Cardinality(StoreIds) =>
    /\ \A documentId \in StoreIds :
         /\ \A term \in DocumentTerms(documentId) :
              Has(Posting(term), documentId)
         /\ \A i \in 1..Len(invertedIndex) :
              Has(invertedIndex[i].ids, documentId)
                => invertedIndex[i].term \in DocumentTerms(documentId)
    /\ \A i \in 1..Len(invertedIndex) :
         \A j \in 1..Len(invertedIndex[i].ids) :
           invertedIndex[i].ids[j] \in StoreIds

\* Three documents, each id added once, one of them with a field of two
\* terms, and a term that two of them share.
C18_Witness ==
  /\ totalDocuments = 3 /\ Cardinality(StoreIds) = 3
  /\ \E documentId \in StoreIds :
       Cardinality(DocumentTerms(documentId)) >= 3
  /\ \E i \in 1..Len(invertedIndex) : Len(invertedIndex[i].ids) >= 2

\* C20: every posting set has at most totalDocuments ids, so the argument
\* of the logarithm of the IDF is greater than 1 and the IDF is positive.
C20_PostingsWithinTotal ==
  \A i \in 1..Len(invertedIndex) :
    LET documentFrequency == Len(invertedIndex[i].ids) IN
    /\ documentFrequency <= totalDocuments
    /\ (2 * totalDocuments - 2 * documentFrequency + 1)
         + (2 * documentFrequency + 1) > 2 * documentFrequency + 1
    /\ ~IDF(documentFrequency).nan
    /\ IDF(documentFrequency).m > 0

\* A posting set that holds every stored id, after an id was added again.
C20_Witness ==
  /\ totalDocuments > Cardinality(StoreIds)
  /\ Cardinality(StoreIds) >= 2
  /\ \E i \in 1..Len(invertedIndex) :
       Len(invertedIndex[i].ids) = Cardinality(StoreIds)

\* The worker has handled every message the hook posted for the cached CSV.
CachedBatchHandled ==
  /\ hook.cachedCSV # <<>>
  /\ hook.pc = "done"
  /\ worker.inserts >= 1

\* C16: when getCachedCSV returned documents, the worker has called
\* addDocument for each of them once it has handled the hook's
\* insertMultiple message, and a search handled afterwards is answered by
\* an engine that holds them all.
C16_CachedDocumentsIndexed ==
  CachedBatchHandled =>
    \A k \in 1..Len(hook.cachedCSV[1]) :
      toString(hook.cachedCSV[1][k][options.idField]) \in StoreIds

\* C17: after saveCachedCSV(data) has completed, getCachedCSV returns data
\* while the script's version is the one of the save and fewer than 84
\* hours have passed.
C17_CacheRoundTrip ==
  ( /\ hook.savedAt # <<>>
    /\ page.version = hook.savedVersion
    /\ page.clock - hook.savedAt[1] < MaxAgeHours )
  => GetCachedCSV = <<hook.wholeData>>

\* C19: insertMultiple and search messages are handled by a worker whose
\* engine an earlier create message made, and a search is handled by an
\* engine that holds every document of the insertMultiple messages posted
\* before it.
C19_MessagesInOrder ==
  /\ worker.last \in {"insertMultiple", "search"} => worker.created
  /\ worker.last = "search" => worker.batchIds \subseteq StoreIds

\* C19, the part on the engine: no insertMultiple or search message is
\* handled before a create message.
C19_EngineCreatedFirst ==
  worker.last \in {"insertMultiple", "search"} => worker.created

====
